---------------------------- MODULE Spec2Model ----------------------------
(***************************************************************************)
(* A model of create_license_plate_tf_record.py: the 70/30 split of the    *)
(* manifest done by main, the sharded writer create_tf_record, and the     *)
(* annotation-to-record converter dict_to_tf_example.                      *)
(*                                                                         *)
(* Three specifications share the definitions:                             *)
(*   Spec       main from start to end: the split, then the writer for the *)
(*              training list and for the validation list;                 *)
(*   SpecSplit  the split alone, run twice on the same manifest by two     *)
(*              processes whose generators start in unrelated states;      *)
(*   SpecConv   dict_to_tf_example applied to bounded annotations.         *)
(***************************************************************************)
EXTENDS Integers, Sequences, FiniteSets, TLC

(***************************************************************************)
(* Bounds of the model.                                                    *)
(***************************************************************************)
\* Longest manifest enumerated exhaustively.
MaxN == 4
\* Length of the one long manifest (distinct IDs 1..LongN) that is also run.
LongN == 90
\* Largest --num_shards value.
MaxShards == 2
\* Most object entries in an enumerated annotation.
MaxObjs == 2

(***************************************************************************)
(* Small helpers.                                                          *)
(***************************************************************************)
Range(s) == {s[i] : i \in DOMAIN s}

Pow2(k) == 2 ^ k

\* How often v occurs in the sequence s.
Count(s, v) == Cardinality({i \in DOMAIN s : s[i] = v})

Distinct(s) == \A i, j \in DOMAIN s : s[i] = s[j] => i = j

SeqsUpTo(S, n) == UNION {[1..k -> S] : k \in 0..n}

(***************************************************************************)
(* The process-wide generator of the random module (lines 177-178).        *)
(*                                                                         *)
(* CPython's generator is MT19937.  getrandbits(k), k <= 32, returns the   *)
(* top k bits of the next 32-bit output.  The shuffle of a list of at most *)
(* 255 elements asks for at most 8 bits, so the model keeps the top byte   *)
(* of each output.  StreamS is the sequence of top bytes that follow       *)
(* random.seed(S); a generator state is the seed it was initialised from   *)
(* and the number of outputs consumed since.                               *)
(***************************************************************************)
Stream42 ==
  <<
     163, 28, 6, 189, 70, 62, 57, 35, 188, 26, 173, 189, 228, 139, 22, 151,
     108, 8, 7, 23, 55, 59, 129, 154, 6, 143, 50, 183, 166, 179, 139, 107,
     56, 114, 150, 71, 207, 222, 1, 194, 206, 40, 178, 108, 87, 71, 39, 55,
     245, 195, 86, 26, 23, 97, 24, 91, 216, 88, 154, 67, 206, 11, 186, 117,
     137, 31, 249, 236, 96, 20, 141, 75, 212, 160, 158, 226, 220, 92, 147,
     49, 180, 17, 11, 169, 58, 197, 74, 252, 20, 218, 59, 221, 25, 97, 71,
     116, 162, 213, 93, 41, 94, 90, 53, 171, 68, 179, 239, 174, 165, 18,
     155, 162, 43, 136, 186, 62, 41, 118, 97, 69, 253, 236, 163, 176, 142,
     56, 175, 83, 215, 196, 198, 14, 58, 210, 8, 206, 80, 102, 68, 16, 54,
     233, 241, 145, 224, 183, 80, 54, 167, 127
  >>

Stream1 ==
  <<
     34, 145, 216, 205, 195, 16, 65, 30, 126, 194, 115, 120, 166, 97, 201,
     53, 24, 124, 7, 228, 213, 99, 110, 155, 195, 196, 0, 178, 114, 68, 184,
     205, 58, 151, 241, 26, 230, 81, 7, 5, 6, 166, 138, 2, 240, 225, 97,
     175, 55, 248, 108, 185, 7, 135, 56, 195, 112, 240, 126, 141, 59, 88,
     59, 173, 56, 194, 117, 243, 74, 237, 5, 106, 214, 234, 142, 236, 164,
     25, 47, 161, 254, 185, 220, 75, 30, 190, 85, 229, 184, 249, 182, 128,
     239, 247, 108, 129, 212, 233, 171, 48, 77, 72, 150, 249, 225, 127, 216,
     240, 129, 100, 150, 218, 8, 122, 62, 190, 204, 103, 106, 170, 44, 93,
     140, 225, 179, 198, 172, 188, 95, 22, 112, 169, 130, 27, 199, 41, 133,
     215, 100, 94, 125, 187, 7, 120, 11, 78, 180, 217, 251, 157
  >>

Stream7 ==
  <<
     82, 242, 38, 101, 166, 12, 18, 210, 137, 24, 93, 149, 14, 232, 129, 54,
     9, 22, 111, 107, 17, 61, 23, 141, 108, 15, 211, 144, 31, 242, 57, 161,
     160, 149, 242, 15, 147, 149, 101, 12, 249, 56, 11, 142, 219, 34, 74,
     107, 36, 138, 30, 146, 78, 143, 208, 174, 46, 26, 148, 146, 163, 48,
     95, 24, 140, 182, 16, 144, 15, 158, 52, 127, 174, 136, 109, 198, 80,
     119, 149, 236, 116, 92, 76, 63, 203, 46, 178, 199, 62, 20, 147, 76,
     134, 126, 224, 87, 186, 114, 73, 155, 250, 18, 30, 131, 107, 42, 193,
     87, 38, 238, 125, 107, 10, 246, 171, 19, 195, 142, 146, 202, 224, 209,
     80, 87, 177, 89, 152, 127, 148, 204, 116, 17, 215, 23, 241, 69, 121,
     178, 170, 16, 15, 187, 179, 79, 165, 147, 254, 174, 210, 114
  >>

\* The seed main passes to random.seed.
SplitSeed == 42

\* Seeds standing for the state the generator is in when the process starts
\* (the random module initialises it from operating-system entropy).
Entropy == {1, 7, 42}

Stream(seed) ==
  CASE seed = 42 -> Stream42
    [] seed = 1  -> Stream1
    [] seed = 7  -> Stream7

\* A mutant of SeedRandom: the generator is left in the state it was in.
SeedRandom_Skipped(r, seed) == r

\* random.seed(seed): the generator restarts from the seed.
SeedRandom(r, seed) == [seed |-> seed, pos |-> 0]

\* n.bit_length()
RECURSIVE BitLength(_)
BitLength(n) == IF n = 0 THEN 0 ELSE 1 + BitLength(n \div 2)

\* getrandbits(k) in state r: <<value, next state>>.
GetRandBits(r, k) ==
  << Stream(r.seed)[r.pos + 1] \div Pow2(8 - k),
     [r EXCEPT !.pos = @ + 1] >>

\* Random._randbelow_with_getrandbits(n): draw bit_length(n) bits until the
\* draw is below n.  <<value, next state>>.
RECURSIVE RandBelow(_, _)
RandBelow(r, n) ==
  LET d == GetRandBits(r, BitLength(n))
  IN  IF d[1] < n THEN d ELSE RandBelow(d[2], n)

Swap(x, i, j) == [x EXCEPT ![i] = x[j], ![j] = x[i]]

\* One iteration of the loop of random.shuffle on s = <<list, generator>>:
\*   j = randbelow(i + 1); x[i], x[j] = x[j], x[i]
\* i is the 0-based index of the code; the sequence is 1-based.
ShuffleStep(s, i) ==
  LET d == RandBelow(s[2], i + 1)
  IN  <<Swap(s[1], i + 1, d[1] + 1), d[2]>>

\* random.shuffle(x): for i in reversed(range(1, len(x))): ...
\* ShuffleFrom(s, i) runs the iterations i, i - 1, ..., 1 on s.  Every draw
\* advances the generator, so the test below is always true; making it
\* evaluates the iteration before the next one is entered, which keeps the
\* evaluation shallow on a long list.
RECURSIVE ShuffleFrom(_, _)
ShuffleFrom(s, i) ==
  IF i < 1 THEN s
  ELSE LET t == ShuffleStep(s, i)
       IN  IF t[2].pos > s[2].pos THEN ShuffleFrom(t, i - 1) ELSE t

\* <<shuffled list, next state>>.
Shuffle(x, r) == ShuffleFrom(<<x, r>>, Len(x) - 1)

(***************************************************************************)
(* num_train = int(0.7 * num_examples)  (line 180).                        *)
(*                                                                         *)
(* 0.7 is the double 0x16666666666666 * 2^-53.  The product with the       *)
(* integer n is computed exactly, rounded to 53 significant bits (to       *)
(* nearest, ties to even) and truncated by int().  The significand is held *)
(* in 12-bit limbs, least significant first, so that every intermediate    *)
(* value stays below 2^31.                                                 *)
(***************************************************************************)
Double07 == <<1638, 1638, 1638, 1638, 22>>

\* limbs * n, as limbs (n < 2^19).
RECURSIVE MulLimbs(_, _, _)
MulLimbs(limbs, n, carry) ==
  IF limbs = <<>>
    THEN IF carry = 0 THEN <<>> ELSE <<carry % 4096>> \o MulLimbs(<<>>, n, carry \div 4096)
    ELSE LET p == Head(limbs) * n + carry
         IN  <<p % 4096>> \o MulLimbs(Tail(limbs), n, p \div 4096)

\* The bits of a limb sequence, least significant first, with one spare
\* zero bit on top.
LimbBits(limbs) ==
  [i \in 1..(12 * Len(limbs) + 1) |->
     IF i > 12 * Len(limbs) THEN 0
     ELSE (limbs[((i - 1) \div 12) + 1] \div Pow2((i - 1) % 12)) % 2]

\* bits + 2^(k-1): add one at bit k.
RECURSIVE IncAt(_, _)
IncAt(bits, k) ==
  IF k > Len(bits) THEN bits
  ELSE IF bits[k] = 0 THEN [bits EXCEPT ![k] = 1]
  ELSE IncAt([bits EXCEPT ![k] = 0], k + 1)

\* The integer whose binary digits are bits[k..], least significant first.
RECURSIVE BitsValue(_, _)
BitsValue(bits, k) ==
  IF k > Len(bits) THEN 0 ELSE bits[k] + 2 * BitsValue(bits, k + 1)

\* Round a bit string (weights 2^(i-54) for bit i) to 53 significant bits.
RoundDouble(b) ==
  LET ones   == {i \in DOMAIN b : b[i] = 1}
      top    == IF ones = {} THEN 0 ELSE CHOOSE i \in ones : \A j \in ones : j <= i
      drop   == IF top > 53 THEN top - 53 ELSE 0
      guard  == drop > 0 /\ b[drop] = 1
      sticky == \E i \in 1..(drop - 1) : b[i] = 1
      odd    == b[drop + 1] = 1
      kept   == [i \in DOMAIN b |-> IF i > drop THEN b[i] ELSE 0]
  IN  IF guard /\ (sticky \/ odd) THEN IncAt(kept, drop + 1) ELSE kept

\* int(0.7 * n)
TruncMul07(n) == BitsValue(RoundDouble(LimbBits(MulLimbs(Double07, n, 0))), 54)

(***************************************************************************)
(* Values read from the annotation XML are text.  Numeral is the set of    *)
(* numerals the model uses with the numbers int() and float() give for     *)
(* them; any other text makes int() and float() raise ValueError.          *)
(***************************************************************************)
Numeral ==
  [t \in {"-1", "0", "1", "2", "4", "5", "6", "10", "30", "40", "50", "150", "200"} |->
     CASE t = "-1" -> 0 - 1 [] t = "0" -> 0 [] t = "1" -> 1 [] t = "2" -> 2
       [] t = "4" -> 4 [] t = "5" -> 5 [] t = "6" -> 6 [] t = "10" -> 10
       [] t = "30" -> 30 [] t = "40" -> 40 [] t = "50" -> 50
       [] t = "150" -> 150 [] t = "200" -> 200]

\* The outcome of an expression: a value, or the exception it raised.
Ok(v) == [raised |-> "none", value |-> v]

Raise(e) == [raised |-> e]

\* The first outcome of a sequence of outcomes that raised, else the last.
RECURSIVE FirstRaised(_)
FirstRaised(rs) ==
  IF Len(rs) = 1 \/ Head(rs).raised # "none" THEN Head(rs) ELSE FirstRaised(Tail(rs))

\* int(text) and float(text) on the numerals of the model.
ParseNumber(t) == IF t \in DOMAIN Numeral THEN Ok(Numeral[t]) ELSE Raise("ValueError")

\* d[k]
GetItem(d, k) == IF k \in DOMAIN d THEN Ok(d[k]) ELSE Raise("KeyError")

Abs(a) == IF a < 0 THEN 0 - a ELSE a

RECURSIVE GCD(_, _)
GCD(a, b) == IF b = 0 THEN a ELSE GCD(b, a % b)

\* The quotient a / b (b > 0) as the fraction <<numerator, denominator>> in
\* lowest terms: the number whose nearest float the division stores.
Frac(a, b) == LET g == GCD(Abs(a), b) IN <<a \div g, b \div g>>

\* A mutant of Divide: the quotient clamped to [0, 1].
Divide_Clamped(a, b) ==
  IF b = 0 THEN Raise("ZeroDivisionError")
  ELSE IF a < 0 THEN Ok(<<0, 1>>)
  ELSE IF a > b THEN Ok(<<1, 1>>)
  ELSE Ok(Frac(a, b))

\* a / b  (lines 91-94)
Divide(a, b) == IF b = 0 THEN Raise("ZeroDivisionError") ELSE Ok(Frac(a, b))

\* if ignore_difficult_instances and difficult: continue  (lines 82-83)
Skipped(ignore_difficult_instances, difficult) ==
  ignore_difficult_instances /\ difficult

\* A mutant of ClassLabel: the label of the object's own class name.
ClassLabel_OwnName(label_map_dict, obj) == GetItem(label_map_dict, obj.name)

\* label_map_dict['LicensePlate']  (line 95)
ClassLabel(label_map_dict, obj) == GetItem(label_map_dict, "LicensePlate")

\* The lists the loop over data['object'] fills (lines 70-78).
EmptyLists ==
  [xmins |-> <<>>, ymins |-> <<>>, xmaxs |-> <<>>, ymaxs |-> <<>>,
   classes |-> <<>>, classes_text |-> <<>>, truncated |-> <<>>,
   poses |-> <<>>, difficult_obj |-> <<>>]

\* A mutant of AppendObject: the class name is appended to classes_text.
AppendObject_WithText(acc, difficult, xmin, ymin, xmax, ymax, label, trunc, pose) ==
  [acc EXCEPT !.difficult_obj = Append(@, IF difficult THEN 1 ELSE 0),
              !.xmins = Append(@, xmin), !.ymins = Append(@, ymin),
              !.xmaxs = Append(@, xmax), !.ymaxs = Append(@, ymax),
              !.classes = Append(@, label),
              !.classes_text = Append(@, "LicensePlate"),
              !.truncated = Append(@, trunc),
              !.poses = Append(@, pose)]

\* The appends of one loop iteration (lines 84, 91-97); classes_text gets none.
AppendObject(acc, difficult, xmin, ymin, xmax, ymax, label, trunc, pose) ==
  [acc EXCEPT !.difficult_obj = Append(@, IF difficult THEN 1 ELSE 0),
              !.xmins = Append(@, xmin), !.ymins = Append(@, ymin),
              !.xmaxs = Append(@, xmax), !.ymaxs = Append(@, ymax),
              !.classes = Append(@, label),
              !.truncated = Append(@, trunc),
              !.poses = Append(@, pose)]

\* One iteration of the loop for an object that is not skipped: the outcome
\* is the extended lists or the first exception, in evaluation order.
LoopBody(obj, difficult, width, height, label_map_dict, acc) ==
  LET xmin  == ParseNumber(obj.bndbox.xmin)
      xmax  == ParseNumber(obj.bndbox.xmax)
      ymin  == ParseNumber(obj.bndbox.ymin)
      ymax  == ParseNumber(obj.bndbox.ymax)
      coords == FirstRaised(<<xmin, xmax, ymin, ymax>>)
      nxmin == Divide(xmin.value, width)
      nymin == Divide(ymin.value, height)
      nxmax == Divide(xmax.value, width)
      nymax == Divide(ymax.value, height)
      label == ClassLabel(label_map_dict, obj)
      trunc == ParseNumber(obj.truncated)
      rest  == FirstRaised(<<nxmin, nymin, nxmax, nymax, label, trunc>>)
  IN  IF coords.raised # "none" THEN coords
      ELSE IF rest.raised # "none" THEN rest
      ELSE Ok(AppendObject(acc, difficult, nxmin.value, nymin.value,
                           nxmax.value, nymax.value, label.value,
                           trunc.value, obj.pose))

\* for obj in data['object']: ...  (lines 80-97)
RECURSIVE ObjectLoop(_, _, _, _, _, _)
ObjectLoop(objs, width, height, label_map_dict, ignore_difficult_instances, acc) ==
  IF objs = <<>> THEN Ok(acc)
  ELSE LET obj == Head(objs)
           d   == ParseNumber(obj.difficult)
       IN  IF d.raised # "none" THEN d
           ELSE IF Skipped(ignore_difficult_instances, d.value # 0)
             THEN ObjectLoop(Tail(objs), width, height, label_map_dict,
                             ignore_difficult_instances, acc)
           ELSE LET r == LoopBody(obj, d.value # 0, width, height, label_map_dict, acc)
                IN  IF r.raised # "none" THEN r
                    ELSE ObjectLoop(Tail(objs), width, height, label_map_dict,
                                    ignore_difficult_instances, r.value)

\* What the bytes of an image file are.  PIL.Image.open accepts any image
\* format it can identify and raises UnidentifiedImageError (an OSError) on
\* bytes it cannot; nothing after it looks at the format (lines 62-66).
ImageOpen(encoded_jpg) ==
  IF encoded_jpg \in {"jpeg-bytes", "png-bytes"} THEN Ok(encoded_jpg)
  ELSE Raise("UnidentifiedImageError")

\* tf.gfile.GFile(img_path, 'rb').read() in a directory given as the
\* function from file name to content  (lines 59-61).
ReadFile(directory, name) ==
  IF name \in DOMAIN directory THEN Ok(directory[name]) ELSE Raise("NotFoundError")

\* feature_dict  (lines 99-114)
FeatureDict(data, width, height, encoded_jpg, lists) ==
  [k \in {"image/height", "image/width", "image/filename", "image/source_id",
          "image/encoded", "image/format",
          "image/object/bbox/xmin", "image/object/bbox/xmax",
          "image/object/bbox/ymin", "image/object/bbox/ymax",
          "image/object/class/text", "image/object/class/label"} |->
     CASE k = "image/height" -> height
       [] k = "image/width" -> width
       [] k = "image/filename" -> data.filename
       [] k = "image/source_id" -> data.filename
       [] k = "image/encoded" -> encoded_jpg
       [] k = "image/format" -> "jpeg"
       [] k = "image/object/bbox/xmin" -> lists.xmins
       [] k = "image/object/bbox/xmax" -> lists.xmaxs
       [] k = "image/object/bbox/ymin" -> lists.ymins
       [] k = "image/object/bbox/ymax" -> lists.ymaxs
       [] k = "image/object/class/text" -> lists.classes_text
       [] k = "image/object/class/label" -> lists.classes]

\* dict_to_tf_example: the tf.Example (its feature dict) or the exception.
dict_to_tf_example(data, label_map_dict, image_subdirectory, ignore_difficult_instances) ==
  LET bytes  == ReadFile(image_subdirectory, data.filename)
      image  == ImageOpen(bytes.value)
      width  == ParseNumber(data.size.width)
      height == ParseNumber(data.size.height)
      lists  == IF "object" \in DOMAIN data
                  THEN ObjectLoop(data.object, width.value, height.value,
                                  label_map_dict, ignore_difficult_instances,
                                  EmptyLists)
                  ELSE Ok(EmptyLists)
  IN  IF bytes.raised # "none" THEN bytes
      ELSE IF image.raised # "none" THEN image
      ELSE IF width.raised # "none" THEN width
      ELSE IF height.raised # "none" THEN height
      ELSE IF lists.raised # "none" THEN lists
      ELSE Ok(FeatureDict(data, width.value, height.value, bytes.value, lists.value))

\* The default of the parameter ignore_difficult_instances  (line 39).
DefaultIgnoreDifficult == FALSE

\* A mutant of ConverterCall: the call site turns the filter on.
ConverterCall_Filtering(data, label_map_dict, image_dir) ==
  dict_to_tf_example(data, label_map_dict, image_dir, TRUE)

\* The call create_tf_record makes: three arguments, so the fourth takes
\* its default  (lines 154-157).
ConverterCall(data, label_map_dict, image_dir) ==
  dict_to_tf_example(data, label_map_dict, image_dir, DefaultIgnoreDifficult)

(***************************************************************************)
(* The data set on disk.  Example IDs are numbers; annotations_dir maps    *)
(* the ID of each annotation file that exists to the dict that             *)
(* recursive_parse_xml_to_dict gives for it, image_dir maps each image     *)
(* file name to its bytes.                                                 *)
(*   1  two objects, one of them difficult and named "car"                 *)
(*   2  no object element; the image is a PNG                              *)
(*   3  no annotation file                                                 *)
(*   4  the width element is not a number                                  *)
(*   5  the image file does not hold an image                              *)
(*   others: one object, all sharing one image file                        *)
(***************************************************************************)
IDs == 1..5

Box1 == [xmin |-> "50", ymin |-> "10", xmax |-> "150", ymax |-> "30"]

Box2 == [xmin |-> "0", ymin |-> "0", xmax |-> "200", ymax |-> "40"]

Box3 == [xmin |-> "-1", ymin |-> "2", xmax |-> "6", ymax |-> "5"]

Object(name, difficult, bndbox) ==
  [name |-> name, pose |-> "Unspecified", truncated |-> "0",
   difficult |-> difficult, bndbox |-> bndbox]

AnnotationFile(id) ==
  CASE id = 1 -> [filename |-> "1.jpg", size |-> [width |-> "200", height |-> "40"],
                  object |-> <<Object("car", "1", Box1), Object("LicensePlate", "0", Box2)>>]
    [] id = 2 -> [filename |-> "2.jpg", size |-> [width |-> "200", height |-> "40"]]
    [] id = 4 -> [filename |-> "4.jpg", size |-> [width |-> "wide", height |-> "40"],
                  object |-> <<Object("LicensePlate", "0", Box1)>>]
    [] id = 5 -> [filename |-> "5.jpg", size |-> [width |-> "200", height |-> "40"],
                  object |-> <<Object("LicensePlate", "0", Box1)>>]
    [] OTHER  -> [filename |-> "plate.jpg", size |-> [width |-> "4", height |-> "4"],
                  object |-> <<Object("LicensePlate", "0", Box3)>>]

AnnotationsDir == [id \in (IDs \cup 1..LongN) \ {3} |-> AnnotationFile(id)]

ImageDir ==
  [n \in {"1.jpg", "2.jpg", "4.jpg", "5.jpg", "plate.jpg"} |->
     CASE n = "2.jpg" -> "png-bytes"
       [] n = "5.jpg" -> "not-an-image"
       [] OTHER       -> "jpeg-bytes"]

\* The label map of the data set, and one that also knows another class.
LicensePlateLabelMap == [LicensePlate |-> 1]

LabelMaps == {LicensePlateLabelMap, [LicensePlate |-> 2, car |-> 1]}

\* The manifest files: every sequence of at most MaxN lines over IDs, and
\* the one with the LongN IDs 1..LongN.  A line is <<ID, second token>>.
Manifests ==
  {[i \in DOMAIN s |-> <<s[i], 1>>] : s \in SeqsUpTo(IDs, MaxN)}
    \cup {[i \in 1..LongN |-> <<i, 1>>]}

(***************************************************************************)
(* State.                                                                  *)
(***************************************************************************)
VARIABLES
  manifest,        \* the lines of annotations/trainval.txt
  entropy,         \* the seed the generator of this process started from
  rng,             \* the generator of the random module
  examples_list,   \* main's examples_list
  train_examples,  \* main's train_examples
  val_examples,    \* main's val_examples
  pc,              \* where main is
  run,             \* which run of the program this is (SpecSplit)
  prev,            \* the split the run before produced (SpecSplit)
  num_shards,      \* FLAGS.num_shards
  label_map_dict,  \* main's label_map_dict
  call,            \* the create_tf_record call main is in: "train" or "val"
  idx,             \* the loop variable idx of create_tf_record
  writers,         \* call -> the state of each of its shard writers
  shard_files,     \* call -> the entries appended to each of its shards
  events,          \* what happened, in order: openings, log lines, calls
  exc,             \* the exception that is propagating, or "none"
  conv             \* the converter applied on its own (SpecConv)

inputVars == <<manifest, entropy, run, prev, num_shards, label_map_dict>>

splitVars == <<rng, examples_list, train_examples, val_examples>>

writerVars == <<call, idx, writers, shard_files, events, exc>>

vars == <<inputVars, splitVars, writerVars, pc, conv>>

Calls == {"train", "val"}

ConvIdle == [pc |-> "idle"]

(***************************************************************************)
(* main, lines 166-186: read the manifest, seed, shuffle, split.           *)
(***************************************************************************)
\* The first tokens of lines lo..hi, in order (the range is halved so that
\* a long file is read in shallow steps).
RECURSIVE FirstTokens(_, _, _)
FirstTokens(lines, lo, hi) ==
  IF lo > hi THEN <<>>
  ELSE IF lo = hi THEN <<lines[lo][1]>>
  ELSE LET mid == (lo + hi) \div 2
       IN  FirstTokens(lines, lo, mid) \o FirstTokens(lines, mid + 1, hi)

\* dataset_util.read_examples_list: the first token of every line.
ReadExamplesList(lines) == FirstTokens(lines, 1, Len(lines))

\* examples_list[:num_train]  (line 181)
TrainSlice(list, num_train) == SubSeq(list, 1, num_train)

\* A mutant of ValSlice: the first validation example is dropped.
ValSlice_DropFirst(list, num_train) == SubSeq(list, num_train + 2, Len(list))

\* examples_list[num_train:]  (line 182)
ValSlice(list, num_train) == SubSeq(list, num_train + 1, Len(list))

Info(msg) == [ev |-> "info", call |-> "main", idx |-> 0 - 1, msg |-> msg]

MainSplit ==
  /\ pc = "start"
  /\ LET read     == ReadExamplesList(manifest)
         seeded   == SeedRandom(rng, SplitSeed)
         shuffled == Shuffle(read, seeded)
         num_examples == Len(shuffled[1])
         num_train    == TruncMul07(num_examples)
     IN  /\ rng' = shuffled[2]
         /\ examples_list' = shuffled[1]
         /\ train_examples' = TrainSlice(shuffled[1], num_train)
         /\ val_examples' = ValSlice(shuffled[1], num_train)
  /\ events' = events \o <<Info("Reading from dataset."),
                           Info("training and validation examples.")>>
  /\ call' = "train"
  /\ pc' = "open"
  /\ UNCHANGED <<inputVars, idx, writers, shard_files, exc, conv>>

(***************************************************************************)
(* create_tf_record, lines 136-162.                                        *)
(***************************************************************************)
Examples == IF call = "train" THEN train_examples ELSE val_examples

Shards == 0..(num_shards - 1)

\* A mutant of ExitStackClose: leaving the block releases nothing.
ExitStackClose_Leak(ws) == ws

\* ExitStack.__exit__: every writer entered on the stack is closed, on a
\* normal exit and on an exception alike  (line 136).
ExitStackClose(ws) == [s \in DOMAIN ws |-> "closed"]

\* A mutant of ShardIndex: the shards are filled one position late.
ShardIndex_Shifted(i, n) == (i + 1) % n

\* shard_idx = idx % num_shards  (line 159)
ShardIndex(i, n) == i % n

\* A mutant of XmlPathExists: the check for the annotation file is gone.
XmlPathExists_Unchecked(dir, example) == TRUE

\* os.path.exists(xml_path)  (line 144)
XmlPathExists(dir, example) == example \in DOMAIN dir

\* fid.read(), etree.fromstring, recursive_parse_xml_to_dict(...)['annotation']
\* (lines 147-150): the dict of the file, or NotFoundError when there is none.
ParseXml(dir, example) ==
  IF example \in DOMAIN dir THEN Ok(dir[example]) ELSE Raise("NotFoundError")

\* except ValueError  (line 161)
Caught(e) == e = "ValueError"

\* tf_example.SerializeToString(): the bytes are identified with the
\* feature dict they encode.
Serialize(tf_example) == tf_example

Ev(kind) == [ev |-> kind, call |-> call, idx |-> idx]

\* logging.info('On image %d of %d', ...) when idx % 100 == 0  (lines 140-141)
OnImage == IF idx % 100 = 0 THEN <<Ev("info")>> ELSE <<>>

\* with ExitStack() ...: open_sharded_output_tfrecords  (lines 136-138)
OpenShards ==
  /\ pc = "open"
  /\ writers' = [writers EXCEPT ![call] = [s \in Shards |-> "open"]]
  /\ shard_files' = [shard_files EXCEPT ![call] = [s \in Shards |-> <<>>]]
  /\ events' = events \o <<[ev |-> "open", call |-> call, idx |-> 0 - 1]>>
  /\ idx' = 0
  /\ pc' = "loop"
  /\ UNCHANGED <<inputVars, splitVars, call, exc, conv>>

\* What one iteration of the loop comes to for the example at idx
\* (lines 142-162).
Iteration ==
  LET example == Examples[idx + 1]
      xml     == ParseXml(AnnotationsDir, example)
      made    == ConverterCall(xml.value, label_map_dict, ImageDir)
  IN  IF ~XmlPathExists(AnnotationsDir, example) THEN [kind |-> "missing"]
      ELSE IF xml.raised # "none"
        THEN [kind |-> "raised", exc |-> xml.raised, converted |-> FALSE]
      ELSE IF made.raised = "none" THEN [kind |-> "record", tf_example |-> made.value]
      ELSE IF Caught(made.raised) THEN [kind |-> "invalid"]
      ELSE [kind |-> "raised", exc |-> made.raised, converted |-> TRUE]

InLoop == pc = "loop" /\ idx < Len(Examples)

\* if not os.path.exists(xml_path): warning; continue  (lines 144-146)
SkipMissingXml ==
  /\ InLoop
  /\ Iteration.kind = "missing"
  /\ events' = events \o OnImage \o <<Ev("warning_missing")>>
  /\ idx' = idx + 1
  /\ UNCHANGED <<inputVars, splitVars, call, writers, shard_files, exc, pc, conv>>

\* except ValueError: warning  (lines 161-162)
SkipInvalidExample ==
  /\ InLoop
  /\ Iteration.kind = "invalid"
  /\ events' = events \o OnImage
                 \o <<Ev("xml_parse"), Ev("convert"), Ev("warning_invalid")>>
  /\ idx' = idx + 1
  /\ UNCHANGED <<inputVars, splitVars, call, writers, shard_files, exc, pc, conv>>

\* if tf_example: output_tfrecords[idx % num_shards].write(...)
\* (lines 158-160; a protocol-buffer message is always true).
WriteRecord ==
  /\ InLoop
  /\ Iteration.kind = "record"
  /\ LET shard_idx == ShardIndex(idx, num_shards)
     IN  /\ shard_files' =
              [shard_files EXCEPT ![call][shard_idx] =
                 Append(@, [idx |-> idx, example |-> Examples[idx + 1],
                            bytes |-> Serialize(Iteration.tf_example)])]
         /\ events' = events \o OnImage
                        \o <<Ev("xml_parse"), Ev("convert"),
                             [ev |-> "write", call |-> call, idx |-> idx,
                              shard |-> shard_idx,
                              writer |-> writers[call][shard_idx]]>>
  /\ idx' = idx + 1
  /\ UNCHANGED <<inputVars, splitVars, call, writers, exc, pc, conv>>

\* An exception the handler does not catch leaves the loop.
PropagateError ==
  /\ InLoop
  /\ Iteration.kind = "raised"
  /\ events' = events \o OnImage \o <<Ev("xml_parse")>>
                 \o (IF Iteration.converted THEN <<Ev("convert")>> ELSE <<>>)
  /\ exc' = Iteration.exc
  /\ pc' = "unwind"
  /\ UNCHANGED <<inputVars, splitVars, call, idx, writers, shard_files, conv>>

\* The exception leaves the with block, which closes the writers, and then
\* main: the process ends.
Unwind ==
  /\ pc = "unwind"
  /\ writers' = [writers EXCEPT ![call] = ExitStackClose(@)]
  /\ events' = events \o <<[ev |-> "close", call |-> call, idx |-> idx]>>
  /\ pc' = "aborted"
  /\ UNCHANGED <<inputVars, splitVars, call, idx, shard_files, exc, conv>>

\* The loop is over: the with block is left, create_tf_record returns, and
\* main calls it for the validation list or ends  (lines 190-203).
CloseShards ==
  /\ pc = "loop"
  /\ idx = Len(Examples)
  /\ writers' = [writers EXCEPT ![call] = ExitStackClose(@)]
  /\ events' = events \o <<[ev |-> "close", call |-> call, idx |-> idx]>>
  /\ IF call = "train"
       THEN call' = "val" /\ pc' = "open"
       ELSE call' = call /\ pc' = "done"
  /\ UNCHANGED <<inputVars, splitVars, idx, shard_files, exc, conv>>

(***************************************************************************)
(* The program run again on the same manifest, by a new process whose      *)
(* generator starts from some other state.  The writer calls are left out: *)
(* they read the two lists and never the generator.                        *)
(***************************************************************************)
Rerun ==
  /\ pc = "open"
  /\ call = "train"
  /\ run = 1
  /\ run' = 2
  /\ prev' = [train |-> train_examples, val |-> val_examples, entropy |-> entropy]
  /\ \E e \in Entropy : entropy' = e /\ rng' = [seed |-> e, pos |-> 0]
  /\ examples_list' = <<>>
  /\ train_examples' = <<>>
  /\ val_examples' = <<>>
  /\ events' = <<>>
  /\ pc' = "start"
  /\ UNCHANGED <<manifest, num_shards, label_map_dict, call, idx, writers,
                 shard_files, exc, conv>>

(***************************************************************************)
(* dict_to_tf_example on its own: called with the flag given, or the way   *)
(* create_tf_record calls it.                                              *)
(***************************************************************************)
Objects ==
  {Object(n, d, b) : n \in {"LicensePlate", "car"}, d \in {"0", "1"},
                     b \in {Box1, Box2, Box3}}

Sizes == {[width |-> w, height |-> h] : w \in {"4", "200", "wide"}, h \in {"4", "40"}}

Annotations ==
  {[filename |-> f, size |-> s] : f \in {"1.jpg", "5.jpg"}, s \in Sizes}
    \cup {[filename |-> f, size |-> s, object |-> o] :
            f \in {"1.jpg", "5.jpg"}, s \in Sizes, o \in SeqsUpTo(Objects, MaxObjs)}

ConvertDirect ==
  /\ conv.pc = "ready"
  /\ conv' = [conv EXCEPT
                !.pc = "done", !.via = "direct",
                !.result = dict_to_tf_example(conv.data, conv.label_map_dict,
                                              ImageDir, conv.ignore)]
  /\ UNCHANGED <<inputVars, splitVars, writerVars, pc>>

ConvertFromWriter ==
  /\ conv.pc = "ready"
  /\ conv' = [conv EXCEPT
                !.pc = "done", !.via = "create_tf_record",
                !.result = ConverterCall(conv.data, conv.label_map_dict, ImageDir)]
  /\ UNCHANGED <<inputVars, splitVars, writerVars, pc>>

(***************************************************************************)
(* The specifications.                                                     *)
(***************************************************************************)
NoWriters == [c \in Calls |-> <<>>]

InitMain ==
  /\ manifest \in Manifests
  /\ entropy \in Entropy
  /\ rng = [seed |-> entropy, pos |-> 0]
  /\ examples_list = <<>>
  /\ train_examples = <<>>
  /\ val_examples = <<>>
  /\ pc = "start"
  /\ run = 1
  /\ prev = [train |-> <<>>, val |-> <<>>, entropy |-> entropy]
  /\ label_map_dict = LicensePlateLabelMap
  /\ call = "train"
  /\ idx = 0
  /\ writers = NoWriters
  /\ shard_files = NoWriters
  /\ events = <<>>
  /\ exc = "none"
  /\ conv = ConvIdle

Init == InitMain /\ num_shards \in 1..MaxShards

Next ==
  \/ MainSplit
  \/ OpenShards
  \/ SkipMissingXml
  \/ SkipInvalidExample
  \/ WriteRecord
  \/ PropagateError
  \/ Unwind
  \/ CloseShards

Spec == Init /\ [][Next]_vars

InitSplit == InitMain /\ num_shards = 1

NextSplit == MainSplit \/ Rerun

SpecSplit == InitSplit /\ [][NextSplit]_vars

InitConv ==
  /\ manifest = <<>>
  /\ entropy = 1
  /\ rng = [seed |-> 1, pos |-> 0]
  /\ examples_list = <<>>
  /\ train_examples = <<>>
  /\ val_examples = <<>>
  /\ pc = "idle"
  /\ run = 1
  /\ prev = [train |-> <<>>, val |-> <<>>, entropy |-> 1]
  /\ num_shards = 1
  /\ label_map_dict = LicensePlateLabelMap
  /\ call = "train"
  /\ idx = 0
  /\ writers = NoWriters
  /\ shard_files = NoWriters
  /\ events = <<>>
  /\ exc = "none"
  /\ conv \in [pc : {"ready"}, via : {"none"}, result : {Raise("none yet")},
               data : Annotations, label_map_dict : LabelMaps, ignore : BOOLEAN]

NextConv == ConvertDirect \/ ConvertFromWriter

SpecConv == InitConv /\ [][NextConv]_vars

(***************************************************************************)
(* Vocabulary of the properties.                                           *)
(***************************************************************************)
ListOf(c) == IF c = "train" THEN train_examples ELSE val_examples

\* main has split the manifest.
SplitDone == pc \notin {"start", "idle"}

\* create_tf_record has been entered for c (its writers are open or were).
Started(c) ==
  \/ c = call /\ pc \in {"loop", "unwind", "aborted", "done"}
  \/ c = "train" /\ call = "val"

\* create_tf_record has ended for c, by returning or by an exception.
Ended(c) ==
  \/ c = call /\ pc \in {"aborted", "done"}
  \/ c = "train" /\ call = "val"

\* The positions of ListOf(c) whose loop iteration has run to its end.
Processed(c) ==
  IF c = call /\ pc \in {"loop", "unwind", "aborted"} THEN 0..(idx - 1)
  ELSE IF Started(c) THEN 0..(Len(ListOf(c)) - 1)
  ELSE {}

\* The position whose iteration raised, when an exception is propagating.
Failing == pc \in {"unwind", "aborted"}

Happened(kind, c, i) ==
  \E k \in DOMAIN events :
    events[k].ev = kind /\ events[k].call = c /\ events[k].idx = i

\* The positions of the entries of shard s of call c.
EntriesAt(c, s, i) == {p \in DOMAIN shard_files[c][s] : shard_files[c][s][p].idx = i}

NoRecord(c, i) == \A s \in DOMAIN shard_files[c] : EntriesAt(c, s, i) = {}

ManifestIDs == [k \in DOMAIN manifest |-> manifest[k][1]]

(***************************************************************************)
(* C1.                                                                     *)
(***************************************************************************)
\* C1 as claimed: once main has split a manifest of N IDs, the training and
\* the validation list have no ID in common, hold together every ID of the
\* manifest, their sizes sum to N, the training list has floor(0.7 N)
\* elements (7 N div 10) and the validation list is the rest of the
\* shuffled sequence.
C1_Original ==
  SplitDone =>
    LET N == Len(manifest)
    IN  /\ Range(train_examples) \cap Range(val_examples) = {}
        /\ Range(train_examples) \cup Range(val_examples) = Range(ManifestIDs)
        /\ Len(train_examples) + Len(val_examples) = N
        /\ Len(train_examples) = (7 * N) \div 10
        /\ train_examples \o val_examples = examples_list

\* C1 as amended: the training list followed by the validation list is the
\* shuffled sequence, which holds every ID as often as the manifest does
\* (sizes sum to N, nothing dropped); the two lists have no ID in common
\* when the manifest holds no ID twice; the training list has
\* int(0.7 * N) elements, which is floor(0.7 N) unless N is a multiple of
\* 10, and then floor(0.7 N) or one less (62 for N = 90).
C1_Amended ==
  SplitDone =>
    LET N == Len(manifest)
    IN  /\ train_examples \o val_examples = examples_list
        /\ Len(train_examples) + Len(val_examples) = N
        /\ \A e \in Range(ManifestIDs) \cup Range(examples_list) :
             Count(examples_list, e) = Count(ManifestIDs, e)
        /\ Distinct(ManifestIDs) =>
             Range(train_examples) \cap Range(val_examples) = {}
        /\ Len(train_examples) \in {(7 * N) \div 10, ((7 * N) \div 10) - 1}
        /\ N % 10 # 0 => Len(train_examples) = (7 * N) \div 10
        /\ N = 90 => Len(train_examples) = 62

\* A manifest of 90 distinct IDs has been split 62 / 28.
C1_Witness ==
  /\ SplitDone
  /\ Len(manifest) = 90
  /\ Distinct(ManifestIDs)
  /\ Len(train_examples) = 62
  /\ Len(val_examples) = 28

(***************************************************************************)
(* C7.                                                                     *)
(***************************************************************************)
\* C7: the generator is seeded with 42 right before the shuffle, so the
\* second run on the same manifest yields the training list and the
\* validation list of the first, element by element, whatever state the
\* generators of the two processes started from.
C7_Deterministic ==
  SplitDone =>
    /\ rng.seed = 42
    /\ run = 2 => train_examples = prev.train /\ val_examples = prev.val

\* The second run has split a manifest that the shuffle really permutes,
\* and its generator started from another state than the first run's.
C7_Witness ==
  /\ SplitDone
  /\ run = 2
  /\ entropy # prev.entropy
  /\ Len(manifest) >= 3
  /\ Distinct(ManifestIDs)
  /\ examples_list # ReadExamplesList(manifest)
  /\ train_examples = prev.train

(***************************************************************************)
(* C2.                                                                     *)
(***************************************************************************)
\* C2: every entry of shard s of a call has a position idx of the call's
\* list with idx mod num_shards = s and holds the record of the example at
\* that position; the entries of a shard are in increasing idx; and every
\* processed position that was not skipped with a warning has exactly one
\* entry, in shard idx mod num_shards (a skipped position has none, and the
\* positions after it keep their own idx).
C2_ShardByIndex ==
  \A c \in Calls :
    /\ \A s \in DOMAIN shard_files[c] :
         LET f == shard_files[c][s]
         IN  \A p \in DOMAIN f :
               /\ f[p].idx \in Processed(c)
               /\ f[p].idx % num_shards = s
               /\ f[p].example = ListOf(c)[f[p].idx + 1]
               /\ p > 1 => f[p - 1].idx < f[p].idx
    /\ \A i \in Processed(c) :
         IF Happened("warning_missing", c, i) \/ Happened("warning_invalid", c, i)
           THEN NoRecord(c, i)
           ELSE /\ Cardinality(EntriesAt(c, i % num_shards, i)) = 1
                /\ \A s \in DOMAIN shard_files[c] :
                     s # i % num_shards => EntriesAt(c, s, i) = {}

\* With two shards: shard 0 holds positions 0 and 2, shard 1 position 1,
\* and a record was written after a skipped position of the same call.
C2_Witness ==
  /\ num_shards = 2
  /\ \E c \in Calls :
       /\ Started(c)
       /\ Len(shard_files[c][0]) >= 2
       /\ Len(shard_files[c][1]) >= 1
       /\ shard_files[c][0][1].idx = 0
       /\ shard_files[c][0][2].idx = 2
       /\ shard_files[c][1][1].idx = 1
       /\ \E i, j \in Processed(c) :
            /\ i < j
            /\ Happened("warning_missing", c, i)
            /\ Happened("write", c, j)

(***************************************************************************)
(* C3.                                                                     *)
(***************************************************************************)
\* The annotation of example e exists and names an image file whose bytes
\* do not decode as an image.
BadImage(e) ==
  /\ e \in DOMAIN AnnotationsDir
  /\ AnnotationsDir[e].filename \in DOMAIN ImageDir
  /\ ImageOpen(ImageDir[AnnotationsDir[e].filename]).raised # "none"

\* C3 as claimed: an example whose image bytes do not decode is skipped
\* with the warning of the ValueError handler, gets no record in any
\* shard, and never makes the call end by an exception.
C3_BadImageSkipped ==
  /\ \A c \in Calls : \A i \in Processed(c) :
       BadImage(ListOf(c)[i + 1]) =>
         Happened("warning_invalid", c, i) /\ NoRecord(c, i)
  /\ Failing => ~BadImage(ListOf(call)[idx + 1])

(***************************************************************************)
(* C4.                                                                     *)
(***************************************************************************)
MissingXml(e) == e \notin DOMAIN AnnotationsDir

\* C4: a processed position whose annotation file does not exist has the
\* warning logged, no record in any shard, and neither the XML parser nor
\* the converter was called for it; and an exception that ends the call
\* never comes from such a position.
C4_MissingXmlSkipped ==
  /\ \A c \in Calls : \A i \in Processed(c) :
       MissingXml(ListOf(c)[i + 1]) =>
         /\ Happened("warning_missing", c, i)
         /\ NoRecord(c, i)
         /\ ~Happened("xml_parse", c, i)
         /\ ~Happened("convert", c, i)
         /\ ~Happened("write", c, i)
  /\ Failing => ~MissingXml(ListOf(call)[idx + 1])

\* An example without annotation file was skipped and a later example of
\* the same call was written.
C4_Witness ==
  \E c \in Calls : \E i, j \in Processed(c) :
    /\ i < j
    /\ MissingXml(ListOf(c)[i + 1])
    /\ Happened("warning_missing", c, i)
    /\ Happened("write", c, j)

(***************************************************************************)
(* C5.                                                                     *)
(***************************************************************************)
EventsOf(kind, c) == {k \in DOMAIN events : events[k].ev = kind /\ events[k].call = c}

\* C5: a call opens its num_shards writers once, before anything is done
\* for an example; they are all open while the loop runs and while an
\* exception leaves it; they are all closed, by one release, once the call
\* has ended, by returning or by an exception; and every write went to a
\* writer that was open.
C5_ShardLifetime ==
  /\ \A c \in Calls :
       LET opens  == EventsOf("open", c)
           closes == EventsOf("close", c)
       IN  /\ Cardinality(opens) = (IF Started(c) THEN 1 ELSE 0)
           /\ Cardinality(closes) = (IF Ended(c) THEN 1 ELSE 0)
           /\ DOMAIN writers[c] = (IF Started(c) THEN 0..(num_shards - 1) ELSE {})
           /\ Started(c) /\ ~Ended(c) => \A s \in DOMAIN writers[c] : writers[c][s] = "open"
           /\ Ended(c) => \A s \in DOMAIN writers[c] : writers[c][s] = "closed"
           /\ \A k \in DOMAIN events :
                events[k].call = c /\ events[k].ev \notin {"open", "close"} =>
                  /\ \E o \in opens : o < k
                  /\ \A x \in closes : k < x
  /\ \A k \in DOMAIN events :
       events[k].ev = "write" => events[k].writer = "open"

\* The validation call, with two shards, wrote a record and then ended by
\* an exception, with both writers closed; the training call had returned.
C5_Witness ==
  /\ pc = "aborted"
  /\ call = "val"
  /\ num_shards = 2
  /\ \A c \in Calls : \A s \in 0..1 : writers[c][s] = "closed"
  /\ \E i \in Processed(call) : Happened("write", call, i)

(***************************************************************************)
(* Vocabulary of the converter's properties.                               *)
(***************************************************************************)
\* dict_to_tf_example has returned a record.
Produced == conv.pc = "done" /\ conv.result.raised = "none"

\* The object entries of the annotation given.
GivenObjects == IF "object" \in DOMAIN conv.data THEN conv.data.object ELSE <<>>

\* The flag in effect: the argument of a direct call; the parameter's
\* default (off) for the call create_tf_record makes.
FlagInEffect == conv.via = "direct" /\ conv.ignore

\* The flag drops object o.
Dropped(flag, o) == flag /\ o.difficult = "1"

RetainedCount(flag) ==
  Cardinality({i \in DOMAIN GivenObjects : ~Dropped(flag, GivenObjects[i])})

\* The objects the flag retains, in their order.
RetainedObjects(flag) ==
  LET Keep(o) == ~Dropped(flag, o) IN SelectSeq(GivenObjects, Keep)

Feature(k) == conv.result.value[k]

\* The fraction f = <<p, q>> is the quotient of coordinate text by dimension text.
IsQuotient(f, coordinate, dimension) ==
  /\ f[2] > 0
  /\ f[1] * Numeral[dimension] = Numeral[coordinate] * f[2]

\* The four coordinate lists are those of the objects objs, in order.
BoxesOf(objs) ==
  /\ Len(Feature("image/object/bbox/xmin")) = Len(objs)
  /\ Len(Feature("image/object/bbox/xmax")) = Len(objs)
  /\ Len(Feature("image/object/bbox/ymin")) = Len(objs)
  /\ Len(Feature("image/object/bbox/ymax")) = Len(objs)
  /\ \A i \in DOMAIN objs :
       /\ IsQuotient(Feature("image/object/bbox/xmin")[i], objs[i].bndbox.xmin,
                     conv.data.size.width)
       /\ IsQuotient(Feature("image/object/bbox/xmax")[i], objs[i].bndbox.xmax,
                     conv.data.size.width)
       /\ IsQuotient(Feature("image/object/bbox/ymin")[i], objs[i].bndbox.ymin,
                     conv.data.size.height)
       /\ IsQuotient(Feature("image/object/bbox/ymax")[i], objs[i].bndbox.ymax,
                     conv.data.size.height)

(***************************************************************************)
(* C6.                                                                     *)
(***************************************************************************)
\* C6: in every record produced, the four coordinate lists and the
\* class-label list have the length of the retained objects, the
\* class-text list is empty, and an annotation without object entries gives
\* five empty lists.
C6_ListLengths ==
  Produced =>
    LET n == RetainedCount(FlagInEffect)
    IN  /\ Len(Feature("image/object/bbox/xmin")) = n
        /\ Len(Feature("image/object/bbox/xmax")) = n
        /\ Len(Feature("image/object/bbox/ymin")) = n
        /\ Len(Feature("image/object/bbox/ymax")) = n
        /\ Len(Feature("image/object/class/label")) = n
        /\ Feature("image/object/class/text") = <<>>
        /\ GivenObjects = <<>> =>
             /\ Feature("image/object/bbox/xmin") = <<>>
             /\ Feature("image/object/bbox/xmax") = <<>>
             /\ Feature("image/object/bbox/ymin") = <<>>
             /\ Feature("image/object/bbox/ymax") = <<>>
             /\ Feature("image/object/class/label") = <<>>

\* A record was produced from two objects of which the flag dropped one.
C6_Witness ==
  /\ Produced
  /\ Len(GivenObjects) = 2
  /\ RetainedCount(FlagInEffect) = 1
  /\ Len(Feature("image/object/class/label")) = 1
  /\ Feature("image/object/class/text") = <<>>

(***************************************************************************)
(* C8.                                                                     *)
(***************************************************************************)
\* C8: the coordinate lists hold, for the retained objects in their order,
\* xmin / width, xmax / width, ymin / height and ymax / height, and
\* nothing is clamped: a coordinate beyond the dimension gives a fraction
\* above 1, a negative one a fraction below 0.
C8_ExactRatios ==
  Produced =>
    LET kept == RetainedObjects(FlagInEffect)
    IN  /\ BoxesOf(kept)
        /\ \A i \in DOMAIN kept :
             /\ Numeral[kept[i].bndbox.xmax] > Numeral[conv.data.size.width] =>
                  Feature("image/object/bbox/xmax")[i][1] > Feature("image/object/bbox/xmax")[i][2]
             /\ Numeral[kept[i].bndbox.ymax] > Numeral[conv.data.size.height] =>
                  Feature("image/object/bbox/ymax")[i][1] > Feature("image/object/bbox/ymax")[i][2]
             /\ Numeral[kept[i].bndbox.xmin] < 0 =>
                  Feature("image/object/bbox/xmin")[i][1] < 0
             /\ kept[i].bndbox.xmin = "50" /\ conv.data.size.width = "200" =>
                  Feature("image/object/bbox/xmin")[i] = <<1, 4>>

\* xmin = 50 in an image 200 wide was stored as 1/4, and the ymax = 30 of
\* the same object in an image 4 high as 15/2.
C8_Witness ==
  /\ Produced
  /\ conv.data.size.width = "200"
  /\ conv.data.size.height = "4"
  /\ Len(GivenObjects) = 2
  /\ GivenObjects[2].bndbox = Box1
  /\ Len(Feature("image/object/bbox/xmin")) = 2
  /\ Feature("image/object/bbox/xmin")[2] = <<1, 4>>
  /\ Feature("image/object/bbox/ymax")[2] = <<15, 2>>

(***************************************************************************)
(* C9.                                                                     *)
(***************************************************************************)
\* C9: every entry of the class-label list is the id the label map gives
\* for "LicensePlate", whatever the class names of the objects are; there
\* is one entry for every retained object.
C9_HardcodedLabel ==
  Produced =>
    /\ Len(Feature("image/object/class/label")) = RetainedCount(FlagInEffect)
    /\ \A i \in DOMAIN Feature("image/object/class/label") :
         Feature("image/object/class/label")[i] = conv.label_map_dict.LicensePlate

\* An object named "car" was labelled with the id of "LicensePlate" under
\* a label map that gives "car" another id.
C9_Witness ==
  /\ Produced
  /\ "car" \in DOMAIN conv.label_map_dict
  /\ conv.label_map_dict.car # conv.label_map_dict.LicensePlate
  /\ Len(GivenObjects) = 1
  /\ GivenObjects[1].name = "car"
  /\ Feature("image/object/class/label") = <<conv.label_map_dict.LicensePlate>>

(***************************************************************************)
(* C10.                                                                    *)
(***************************************************************************)
\* C10: the flag is off by default; the call create_tf_record makes and a
\* direct call with the flag off retain every object entry, difficult or
\* not; a direct call with the flag on drops exactly the objects with
\* difficult = 1 and keeps the others in their order.
C10_DifficultFilter ==
  /\ DefaultIgnoreDifficult = FALSE
  /\ Produced =>
       /\ conv.via = "create_tf_record" => BoxesOf(GivenObjects)
       /\ conv.via = "direct" /\ ~conv.ignore => BoxesOf(GivenObjects)
       /\ conv.via = "direct" /\ conv.ignore => BoxesOf(RetainedObjects(TRUE))

\* The call create_tf_record makes kept a difficult object.
C10_Witness ==
  /\ Produced
  /\ conv.via = "create_tf_record"
  /\ Len(GivenObjects) = 2
  /\ GivenObjects[1].difficult = "1"
  /\ GivenObjects[2].difficult = "0"
  /\ Len(Feature("image/object/bbox/xmin")) = 2

\* A direct call with the flag on dropped the difficult object of two.
C10_WitnessFiltered ==
  /\ Produced
  /\ conv.via = "direct"
  /\ conv.ignore
  /\ Len(GivenObjects) = 2
  /\ GivenObjects[1].difficult = "1"
  /\ GivenObjects[2].difficult = "0"
  /\ Len(Feature("image/object/bbox/xmin")) = 1

=============================================================================
